---- MODULE Spec2Model ----
(***************************************************************************)
(* Model of src/main.py (tit-ioc-similarity-analyzer): the normaliser, the *)
(* two similarity metrics and the pairwise sweep of calculate_similarity,  *)
(* together with the part of main() that validates the threshold and       *)
(* reports the result.                                                     *)
(*                                                                         *)
(* Strings are sequences of one-character strings.  Scores are exact       *)
(* fractions [num, den] with den > 0; the thresholds of ThresholdSet are   *)
(* values for which IEEE double arithmetic (d/m, 1 - d/m, >=) gives the    *)
(* same verdict as the exact fraction for every length the bounds allow.   *)
(* The except-branches of jaccard_similarity, levenshtein_distance and     *)
(* normalize_ioc cannot be entered for str / set-of-char arguments and are *)
(* therefore not part of the model.                                        *)
(***************************************************************************)
EXTENDS Integers, Sequences, FiniteSets, TLC

(***************************************************************************)
(* Bounds                                                                  *)
(***************************************************************************)
MaxIocs == 3
MaxLen == 3
MaxPieces == 2

(***************************************************************************)
(* Characters and strings                                                  *)
(***************************************************************************)
Whitespace == {" "}

Lower(c) ==
    CASE c = "A" -> "a"
      [] c = "B" -> "b"
      [] c = "C" -> "c"
      [] c = "H" -> "h"
      [] c = "T" -> "t"
      [] c = "P" -> "p"
      [] c = "O" -> "o"
      [] c = "M" -> "m"
      [] OTHER -> c

\* str.lower()
StrLower(s) == [k \in 1..Len(s) |-> Lower(s[k])]

RECURSIVE LStrip(_)
LStrip(s) ==
    IF s # <<>> /\ Head(s) \in Whitespace THEN LStrip(Tail(s)) ELSE s

RECURSIVE RStrip(_)
RStrip(s) ==
    IF s # <<>> /\ s[Len(s)] \in Whitespace
    THEN RStrip(SubSeq(s, 1, Len(s) - 1))
    ELSE s

\* str.strip()
Strip(s) == RStrip(LStrip(s))

StartsWith(s, p) == Len(s) >= Len(p) /\ SubSeq(s, 1, Len(p)) = p

EndsWith(s, p) == Len(s) >= Len(p) /\ SubSeq(s, Len(s) - Len(p) + 1, Len(s)) = p

DropFirst(s, n) == SubSeq(s, n + 1, Len(s))

DropLast(s, n) == SubSeq(s, 1, Len(s) - n)

HTTP == <<"h", "t", "t", "p", ":", "/", "/">>
HTTPS == <<"h", "t", "t", "p", "s", ":", "/", "/">>
WWW == <<"w", "w", "w", ".">>
COM == <<".", "c", "o", "m">>
NET == <<".", "n", "e", "t">>
ORG == <<".", "o", "r", "g">>
IO == <<".", "i", "o">>

\* re.sub(r"^(http://|https://|www\.)", "", ioc): the pattern is anchored at
\* position 0, so at most one occurrence is replaced; alternatives are tried
\* in order.
StripPrefix(s) ==
    IF StartsWith(s, HTTP) THEN DropFirst(s, Len(HTTP))
    ELSE IF StartsWith(s, HTTPS) THEN DropFirst(s, Len(HTTPS))
    ELSE IF StartsWith(s, WWW) THEN DropFirst(s, Len(WWW))
    ELSE s

\* re.sub(r"(\.com|\.net|\.org|\.io)$", "", ioc): the argument never ends in
\* a newline (it was stripped, and only a prefix was removed since), so $
\* matches at the very end only and at most one occurrence is replaced.
StripSuffix(s) ==
    IF EndsWith(s, COM) THEN DropLast(s, Len(COM))
    ELSE IF EndsWith(s, NET) THEN DropLast(s, Len(NET))
    ELSE IF EndsWith(s, ORG) THEN DropLast(s, Len(ORG))
    ELSE IF EndsWith(s, IO) THEN DropLast(s, Len(IO))
    ELSE s

normalize_ioc(ioc) == StripSuffix(StripPrefix(Strip(StrLower(ioc))))

(***************************************************************************)
(* Metrics                                                                 *)
(***************************************************************************)
Frac(n, d) == [num |-> n, den |-> d]

\* set(ioc): the distinct characters of a string
CharSet(s) == {s[k] : k \in 1..Len(s)}

jaccard_similarity_empty_is_one(set1, set2) ==
    LET intersection == Cardinality(set1 \cap set2)
        union == Cardinality(set1 \cup set2)
    IN  IF union = 0 THEN Frac(1, 1) ELSE Frac(intersection, union)

jaccard_similarity(set1, set2) ==
    LET intersection == Cardinality(set1 \cap set2)
        union == Cardinality(set1 \cup set2)
    IN  IF union = 0 THEN Frac(0, 1) ELSE Frac(intersection, union)

Min3(a, b, c) ==
    IF a <= b /\ a <= c THEN a ELSE IF b <= c THEN b ELSE c

SubstitutionCostAlways(c1, c2) == 1

\* (c1 != c2) used as an integer
SubstitutionCost(c1, c2) == IF c1 # c2 THEN 1 ELSE 0

\* inner loop of levenshtein_distance: extends current_row by one cell per
\* character of s2 (j is the 0-based index of the code)
RECURSIVE LevInner(_, _, _, _, _)
LevInner(c1, s2, previous_row, current_row, j) ==
    IF j >= Len(s2) THEN current_row
    ELSE LET insertions == previous_row[j + 2] + 1
             deletions == current_row[j + 1] + 1
             substitutions == previous_row[j + 1] + SubstitutionCost(c1, s2[j + 1])
         IN  LevInner(c1, s2, previous_row,
                      Append(current_row, Min3(insertions, deletions, substitutions)),
                      j + 1)

\* outer loop of levenshtein_distance (i is the 0-based index of the code)
RECURSIVE LevOuter(_, _, _, _)
LevOuter(s1, s2, previous_row, i) ==
    IF i >= Len(s1) THEN previous_row
    ELSE LevOuter(s1, s2, LevInner(s1[i + 1], s2, previous_row, <<i + 1>>, 0), i + 1)

EmptyCaseDistanceOffByOne(s1) == Len(s1) + 1

\* "if len(s2) == 0: return len(s1)"
EmptyCaseDistance(s1) == Len(s1)

RECURSIVE levenshtein_distance(_, _)
levenshtein_distance(s1, s2) ==
    IF Len(s1) < Len(s2) THEN levenshtein_distance(s2, s1)
    ELSE IF Len(s2) = 0 THEN EmptyCaseDistance(s1)
    ELSE LET previous_row == LevOuter(s1, s2, [k \in 1..(Len(s2) + 1) |-> k - 1], 0)
         IN  previous_row[Len(previous_row)]

MaxLengthFirstOnly(ioc1, ioc2) == Len(ioc1)

\* max(len(ioc1), len(ioc2))
MaxLength(ioc1, ioc2) == IF Len(ioc1) >= Len(ioc2) THEN Len(ioc1) ELSE Len(ioc2)

\* the "jaccard" branch of calculate_similarity
JaccardScore(ioc1, ioc2) == jaccard_similarity(CharSet(ioc1), CharSet(ioc2))

\* the "levenshtein" branch of calculate_similarity:
\* 1 - (distance / max_length) if max_length > 0 else 1.0
LevenshteinScore(ioc1, ioc2) ==
    LET distance == levenshtein_distance(ioc1, ioc2)
        max_length == MaxLength(ioc1, ioc2)
    IN  IF max_length > 0 THEN Frac(max_length - distance, max_length)
        ELSE Frac(1, 1)

ValidMetrics == {"jaccard", "levenshtein"}

Score(similarity_metric, ioc1, ioc2) ==
    IF similarity_metric = "jaccard" THEN JaccardScore(ioc1, ioc2)
    ELSE LevenshteinScore(ioc1, ioc2)

\* comparison of two fractions with positive denominators
FracGeq(x, y) == x.num * y.den >= y.num * x.den

FracGt(x, y) == x.num * y.den > y.num * x.den

FracEq(x, y) == x.num * y.den = y.num * x.den

PassesThresholdStrict(similarity_score, t) == FracGt(similarity_score, t)

\* "if similarity_score >= threshold"
PassesThreshold(similarity_score, t) == FracGeq(similarity_score, t)

ThresholdOnlyLowerBound(t) == FracGeq(t, Frac(0, 1))

\* main: "if not 0.0 <= args.threshold <= 1.0" (negated)
ThresholdInRange(t) == FracGeq(t, Frac(0, 1)) /\ FracGeq(Frac(1, 1), t)

(***************************************************************************)
(* State                                                                   *)
(*                                                                         *)
(* One run of calculate_similarity, called either by main() (arguments     *)
(* parsed by argparse) or directly by another caller:                      *)
(*   caller, iocs, similarity_metric, threshold   the arguments            *)
(*   pc                 position in main / calculate_similarity            *)
(*   normalized_iocs, i, j, similarity_score, similarity_data   locals     *)
(*   pairs              history: the (i, j) of each appended record        *)
(*   raised             the exception caught by calculate_similarity       *)
(*   df                 the value calculate_similarity returned            *)
(*   log, stdout, exit_code   what the run wrote and main's exit status    *)
(* Evaluation of the metrics on argument strings str1, str2, str3:         *)
(*   dist, score        the values returned                                *)
(* Evaluation of normalize_ioc on raw: once, twice.                        *)
(***************************************************************************)
VARIABLES caller, iocs, similarity_metric, threshold, pc,
          normalized_iocs, i, j, similarity_score, similarity_data, pairs,
          raised, df, log, stdout, exit_code,
          str1, str2, str3, dist, score,
          raw, once, twice

runVars == <<caller, iocs, similarity_metric, threshold,
             normalized_iocs, i, j, similarity_score, similarity_data, pairs,
             raised, df, log, stdout, exit_code>>

metricVars == <<str1, str2, str3, dist, score>>

normVars == <<raw, once, twice>>

vars == <<pc, runVars, metricVars, normVars>>

\* a local that has not been assigned yet
Unbound == Frac(0, 0)

NoIndex == -1

\* the raw indicators a run is given
RawIocs ==
    { WWW,
      COM,
      <<"H", "T", "T", "P", ":", "/", "/", "a", "b", ".", "C", "O", "M">>,
      <<"a", "b", "c">>,
      <<"a", "b", "d">> }

IocLists == UNION {[1..n -> RawIocs] : n \in 0..MaxIocs}

\* --threshold values (type=float): below, inside, on the edges of and above
\* the documented range 0.0-1.0
ThresholdSet ==
    { Frac(0 - 1, 10), Frac(0, 1), Frac(1, 2), Frac(3, 5), Frac(4, 5), Frac(1, 1),
      Frac(101, 100) }

\* metric names a direct caller may pass; argparse (choices=) lets main pass
\* only the two valid ones
MetricNames == ValidMetrics \cup {"cosine"}

IdleRun ==
    /\ caller = "none" /\ iocs = <<>> /\ similarity_metric = "jaccard"
    /\ threshold = Frac(4, 5)
    /\ normalized_iocs = <<>> /\ i = NoIndex /\ j = NoIndex
    /\ similarity_score = Unbound /\ similarity_data = <<>> /\ pairs = <<>>
    /\ raised = "none" /\ df = <<>> /\ log = <<>> /\ stdout = <<>>
    /\ exit_code = NoIndex

IdleMetric == str1 = <<>> /\ str2 = <<>> /\ str3 = <<>> /\ dist = <<>> /\ score = <<>>

IdleNorm == raw = <<>> /\ once = <<>> /\ twice = <<>>

Init ==
    /\ caller \in {"main", "direct"}
    /\ iocs \in IocLists
    /\ similarity_metric \in MetricNames
    /\ threshold \in ThresholdSet
    \* argparse: --iocs nargs='+', --metric choices=[jaccard, levenshtein]
    /\ caller = "main" => (iocs # <<>> /\ similarity_metric \in ValidMetrics)
    /\ pc = IF caller = "main" THEN "main" ELSE "call"
    /\ normalized_iocs = <<>> /\ i = NoIndex /\ j = NoIndex
    /\ similarity_score = Unbound /\ similarity_data = <<>> /\ pairs = <<>>
    /\ raised = "none" /\ df = <<>> /\ log = <<>> /\ stdout = <<>>
    /\ exit_code = NoIndex
    /\ IdleMetric
    /\ IdleNorm

\* main: threshold outside [0.0, 1.0] -> logging.error, sys.exit(1)
MainRejectThreshold ==
    /\ pc = "main"
    /\ ~ThresholdInRange(threshold)
    /\ log' = Append(log, "Threshold must be between 0.0 and 1.0")
    /\ exit_code' = 1
    /\ pc' = "exit"
    /\ UNCHANGED <<caller, iocs, similarity_metric, threshold, normalized_iocs,
                   i, j, similarity_score, similarity_data, pairs, raised, df,
                   stdout, metricVars, normVars>>

\* main: threshold accepted, calculate_similarity is called
MainCall ==
    /\ pc = "main"
    /\ ThresholdInRange(threshold)
    /\ pc' = "call"
    /\ UNCHANGED <<runVars, metricVars, normVars>>

\* calculate_similarity: normalized_iocs = [...], num_iocs, similarity_data = []
Normalize ==
    /\ pc = "call"
    /\ normalized_iocs' = [k \in 1..Len(iocs) |-> normalize_ioc(iocs[k])]
    /\ similarity_data' = <<>>
    /\ pc' = "sweep"
    /\ UNCHANGED <<caller, iocs, similarity_metric, threshold, i, j,
                   similarity_score, pairs, raised, df, log, stdout, exit_code,
                   metricVars, normVars>>

InnerStartSkip(ii) == ii + 2

\* "for j in range(i + 1, num_iocs)": the first j of row i
InnerStart(ii) == ii + 1

\* the rows from lo on whose inner range is not empty
RowsFrom(lo, n) == {r \in lo..(n - 1) : InnerStart(r) < n}

MinOf(S) == CHOOSE x \in S : \A y \in S : x <= y

\* the two nested for-loops: the pair visited after (ii, jj), <<>> when the
\* loops are exhausted; (NoIndex, NoIndex) is the state before the first pair
NextPair(ii, jj, n) ==
    IF ii # NoIndex /\ jj + 1 < n THEN <<ii, jj + 1>>
    ELSE LET rows == RowsFrom(ii + 1, n)
         IN  IF rows = {} THEN <<>>
             ELSE <<MinOf(rows), InnerStart(MinOf(rows))>>

Row(ii, jj, s) ==
    [IOC1 |-> iocs[ii + 1], IOC2 |-> iocs[jj + 1],
     Normalized_IOC1 |-> normalized_iocs[ii + 1],
     Normalized_IOC2 |-> normalized_iocs[jj + 1],
     Similarity |-> s, Metric |-> similarity_metric]

\* one iteration of the inner loop with a valid metric
Compare ==
    /\ pc = "sweep"
    /\ similarity_metric \in ValidMetrics
    /\ LET nxt == NextPair(i, j, Len(normalized_iocs))
       IN  /\ nxt # <<>>
           /\ LET ioc1 == normalized_iocs[nxt[1] + 1]
                  ioc2 == normalized_iocs[nxt[2] + 1]
                  s == Score(similarity_metric, ioc1, ioc2)
              IN  /\ i' = nxt[1]
                  /\ j' = nxt[2]
                  /\ similarity_score' = s
                  /\ IF PassesThreshold(s, threshold)
                     THEN /\ similarity_data' =
                                Append(similarity_data, Row(nxt[1], nxt[2], s))
                          /\ pairs' = Append(pairs, nxt)
                     ELSE UNCHANGED <<similarity_data, pairs>>
    /\ UNCHANGED <<pc, caller, iocs, similarity_metric, threshold,
                   normalized_iocs, raised, df, log, stdout, exit_code,
                   metricVars, normVars>>

\* one iteration of the inner loop with any other metric name: ValueError is
\* raised and caught by "except ValueError", which logs it and returns an
\* empty DataFrame
CompareInvalidMetric ==
    /\ pc = "sweep"
    /\ similarity_metric \notin ValidMetrics
    /\ LET nxt == NextPair(i, j, Len(normalized_iocs))
       IN  /\ nxt # <<>>
           /\ i' = nxt[1]
           /\ j' = nxt[2]
    /\ raised' = "ValueError"
    /\ log' = Append(log, "ValueError in calculate_similarity: Invalid similarity metric. Choose 'jaccard' or 'levenshtein'.")
    /\ df' = <<>>
    /\ pc' = "returned"
    /\ UNCHANGED <<caller, iocs, similarity_metric, threshold, normalized_iocs,
                   similarity_score, similarity_data, pairs, stdout, exit_code,
                   metricVars, normVars>>

\* the loops are exhausted: df = pd.DataFrame(similarity_data); return df
Return ==
    /\ pc = "sweep"
    /\ NextPair(i, j, Len(normalized_iocs)) = <<>>
    /\ df' = similarity_data
    /\ pc' = "returned"
    /\ UNCHANGED <<caller, iocs, similarity_metric, threshold, normalized_iocs,
                   i, j, similarity_score, similarity_data, pairs, raised, log,
                   stdout, exit_code, metricVars, normVars>>

\* main: "if similarity_df.empty: print(No similar ...) else: print(tabulate)"
MainReport ==
    /\ pc = "returned"
    /\ caller = "main"
    /\ stdout' = IF df = <<>>
                 THEN Append(stdout, "No similar IOCs found above the specified threshold.")
                 ELSE Append(stdout, "table")
    /\ exit_code' = 0
    /\ pc' = "exit"
    /\ UNCHANGED <<caller, iocs, similarity_metric, threshold, normalized_iocs,
                   i, j, similarity_score, similarity_data, pairs, raised, df,
                   log, metricVars, normVars>>

Next ==
    \/ MainRejectThreshold
    \/ MainCall
    \/ Normalize
    \/ Compare
    \/ CompareInvalidMetric
    \/ Return
    \/ MainReport

Spec == Init /\ [][Next]_vars

(***************************************************************************)
(* Properties of a run                                                     *)
(***************************************************************************)
Zero == Frac(0, 1)

One == Frac(1, 1)

NumPairs(n) == (n * (n - 1)) \div 2

\* the last pair the sweep compared was appended to similarity_data
LastEmitted == pairs # <<>> /\ pairs[Len(pairs)] = <<i, j>>

LexLess(p, q) == p[1] < q[1] \/ (p[1] = q[1] /\ p[2] < q[2])

\* C1: for every indicator sequence and every metric name other than
\* 'jaccard' and 'levenshtein', calculate_similarity ends in the
\* invalid-metric error (ValueError) with zero records; it never returns as
\* a normal run.
C1_InvalidMetricAborts ==
    (pc = "returned" /\ similarity_metric \notin ValidMetrics)
        => (raised = "ValueError" /\ df = <<>>)

\* C2 (as claimed): calculate_similarity called with a threshold greater
\* than 1.0 is rejected with an error before any pair is compared.
C2_RejectedByCalculateSimilarity ==
    (FracGt(threshold, One) /\ pc \in {"sweep", "returned"})
        => /\ similarity_score = Unbound
           /\ pc = "returned" => raised # "none"

\* C2 (amended): main rejects a threshold greater than 1.0 (error logged,
\* exit status 1, nothing printed) before calculate_similarity is called, so
\* nothing is normalised or compared and the threshold is not clamped;
\* calculate_similarity itself does not check the threshold: called directly
\* with a threshold above 1.0 and a valid metric it runs the sweep and
\* returns no records and no error.
C2_RejectedByMain ==
    /\ (caller = "main" /\ FracGt(threshold, One))
          => /\ pc \in {"main", "exit"}
             /\ normalized_iocs = <<>>
             /\ similarity_score = Unbound
             /\ pc = "exit" => /\ exit_code = 1
                               /\ log = <<"Threshold must be between 0.0 and 1.0">>
                               /\ stdout = <<>>
    /\ (caller = "direct" /\ FracGt(threshold, One) /\ pc = "returned"
            /\ similarity_metric \in ValidMetrics)
          => /\ raised = "none"
             /\ df = <<>>
             /\ Len(iocs) >= 2 => similarity_score # Unbound

C2_Witness ==
    /\ caller = "main"
    /\ FracGt(threshold, One)
    /\ pc = "exit"
    /\ exit_code = 1

\* C3: the outcome of a run that aborted on an error differs from the
\* outcome of a successful run in which no pair reached the threshold (the
\* empty result, which main reports as "No similar IOCs found ...").
C3_AbortDistinguishable ==
    (pc = "returned" /\ raised # "none") => df # <<>>

\* C5: for a valid metric the result is exactly the index pairs (p, q) with
\* 0 <= p < q < n whose score on the normalized forms is >= threshold, in
\* increasing p and then increasing q (hence no self-pair, no pair twice or
\* in both orders), one record per pair.
C5_ResultIsOrderedPairs ==
    (pc = "returned" /\ raised = "none" /\ similarity_metric \in ValidMetrics)
        => LET n == Len(iocs)
               sc(p, q) == Score(similarity_metric, normalize_ioc(iocs[p + 1]),
                                 normalize_ioc(iocs[q + 1]))
               qualifies(p, q) == FracGeq(sc(p, q), threshold)
           IN  /\ \A k \in 1..Len(pairs) :
                     /\ 0 <= pairs[k][1]
                     /\ pairs[k][1] < pairs[k][2]
                     /\ pairs[k][2] < n
                     /\ qualifies(pairs[k][1], pairs[k][2])
               /\ \A p \in 0..(n - 1) : \A q \in (p + 1)..(n - 1) :
                     qualifies(p, q) => \E k \in 1..Len(pairs) : pairs[k] = <<p, q>>
               /\ \A k \in 1..(Len(pairs) - 1) : LexLess(pairs[k], pairs[k + 1])
               /\ Len(df) = Len(pairs)
               /\ \A k \in 1..Len(df) :
                     /\ df[k].IOC1 = iocs[pairs[k][1] + 1]
                     /\ df[k].IOC2 = iocs[pairs[k][2] + 1]
                     /\ df[k].Similarity = sc(pairs[k][1], pairs[k][2])
                     /\ df[k].Metric = similarity_metric

\* two of three pairs reported, the first pair filtered out
C5_Witness ==
    /\ pc = "returned"
    /\ raised = "none"
    /\ Len(iocs) = 3
    /\ pairs = << <<0, 2>>, <<1, 2>> >>
    /\ Len(df) = 2

\* C6: with threshold 0.0 and a valid metric the result has n*(n-1)/2
\* records.
C6_ThresholdZeroAllPairs ==
    (pc = "returned" /\ similarity_metric \in ValidMetrics /\ threshold = Zero)
        => (raised = "none" /\ Len(df) = NumPairs(Len(iocs)))

C6_Witness ==
    /\ pc = "returned"
    /\ similarity_metric \in ValidMetrics
    /\ threshold = Zero
    /\ Len(iocs) >= 3
    /\ Len(df) = NumPairs(Len(iocs))
    /\ \E k \in 1..Len(df) : df[k].Similarity.num = 0

\* all strings over {"a", "b"} of length at most MaxLen
Strings == UNION {[1..n -> {"a", "b"}] : n \in 0..MaxLen}

\* C9: a pair of equal non-empty normalized strings scores 1.0 under both
\* metrics; a pair of empty normalized strings scores 0.0 under jaccard and
\* 1.0 under levenshtein, so it is reported under levenshtein whenever
\* threshold <= 1.0 and never under jaccard when threshold > 0.0.
C9_SelfAndEmptyConventions ==
    \* the metric branches on every string of Strings (state-independent,
    \* so evaluated at the entry of calculate_similarity only)
    /\ pc = "call"
          => /\ \A s \in Strings \ {<<>>} :
                   /\ FracEq(JaccardScore(s, s), One)
                   /\ FracEq(LevenshteinScore(s, s), One)
             /\ JaccardScore(<<>>, <<>>) = Zero
             /\ LevenshteinScore(<<>>, <<>>) = One
    \* the pair the sweep has just compared
    /\ (similarity_score # Unbound /\ normalized_iocs[i + 1] = normalized_iocs[j + 1])
          => LET s == normalized_iocs[i + 1]
             IN  /\ s # <<>> => FracEq(similarity_score, One)
                 /\ (s = <<>> /\ similarity_metric = "jaccard")
                       => /\ similarity_score = Zero
                          /\ FracGt(threshold, Zero) => ~LastEmitted
                 /\ (s = <<>> /\ similarity_metric = "levenshtein")
                       => /\ similarity_score = One
                          /\ FracGeq(One, threshold) => LastEmitted

\* two different indicators that both normalize to the empty string have
\* been compared under levenshtein and reported
C9_Witness ==
    /\ similarity_score # Unbound
    /\ iocs[i + 1] # iocs[j + 1]
    /\ normalized_iocs[i + 1] = <<>>
    /\ normalized_iocs[j + 1] = <<>>
    /\ similarity_metric = "levenshtein"
    /\ similarity_score = One
    /\ LastEmitted

(***************************************************************************)
(* The metrics applied to argument strings                                 *)
(***************************************************************************)
InitMetric ==
    /\ pc = "args"
    /\ str1 \in Strings
    /\ str2 \in Strings
    /\ str3 \in Strings
    /\ dist = <<>>
    /\ score = <<>>
    /\ IdleRun
    /\ IdleNorm

\* levenshtein_distance called on the argument strings
EvalDistance ==
    /\ pc = "args"
    /\ dist' = [d12 |-> levenshtein_distance(str1, str2),
                d21 |-> levenshtein_distance(str2, str1),
                d23 |-> levenshtein_distance(str2, str3),
                d13 |-> levenshtein_distance(str1, str3)]
    /\ pc' = "distances"
    /\ UNCHANGED <<str1, str2, str3, score, runVars, normVars>>

\* the two metric branches of calculate_similarity applied to (str1, str2)
\* and to (str2, str1)
EvalScore ==
    /\ pc = "distances"
    /\ score' = [jac12 |-> JaccardScore(str1, str2),
                 jac21 |-> JaccardScore(str2, str1),
                 lev12 |-> LevenshteinScore(str1, str2),
                 lev21 |-> LevenshteinScore(str2, str1)]
    /\ pc' = "scores"
    /\ UNCHANGED <<str1, str2, str3, dist, runVars, normVars>>

NextMetric == EvalDistance \/ EvalScore

SpecMetric == InitMetric /\ [][NextMetric]_vars

\* the classic edit distance, by its defining recursion on the last characters
RECURSIVE EditDistance(_, _)
EditDistance(s, t) ==
    IF s = <<>> THEN Len(t)
    ELSE IF t = <<>> THEN Len(s)
    ELSE LET s0 == SubSeq(s, 1, Len(s) - 1)
             t0 == SubSeq(t, 1, Len(t) - 1)
             del == EditDistance(s0, t) + 1
             ins == EditDistance(s, t0) + 1
             sub == EditDistance(s0, t0) + (IF s[Len(s)] = t[Len(t)] THEN 0 ELSE 1)
         IN  IF del <= ins /\ del <= sub THEN del
             ELSE IF ins <= sub THEN ins ELSE sub

\* C7: levenshtein_distance is the classic edit distance and a metric:
\* non-negative, zero exactly for equal strings, triangle inequality.
C7_LevenshteinIsMetric ==
    pc \in {"distances", "scores"}
        => /\ dist.d12 = EditDistance(str1, str2)
           /\ dist.d12 >= 0
           /\ dist.d12 = 0 <=> str1 = str2
           /\ dist.d13 <= dist.d12 + dist.d23

\* three different strings, the first shorter than the second (operands
\* swapped), with the triangle inequality tight
C7_Witness ==
    /\ pc = "distances"
    /\ str1 # str2 /\ str2 # str3 /\ str1 # str3
    /\ Len(str1) < Len(str2)
    /\ dist.d12 >= 2
    /\ dist.d23 >= 1
    /\ dist.d13 = dist.d12 + dist.d23

\* C8: both metrics are symmetric: the Jaccard score and the
\* Levenshtein-derived score of (str1, str2) equal those of (str2, str1),
\* and so does the distance.
C8_MetricsSymmetric ==
    pc = "scores"
        => /\ FracEq(score.jac12, score.jac21)
           /\ FracEq(score.lev12, score.lev21)
           /\ score.lev12.den = score.lev21.den
           /\ dist.d12 = dist.d21

\* strings of different lengths with both scores strictly between 0 and 1
C8_Witness ==
    /\ pc = "scores"
    /\ Len(str1) < Len(str2)
    /\ 0 < score.jac12.num /\ score.jac12.num < score.jac12.den
    /\ 0 < score.lev12.num /\ score.lev12.num < score.lev12.den

\* C10: every score of either metric lies in [0, 1]; the Levenshtein
\* distance never exceeds the length of the longer string.
C10_ScoreInUnitInterval ==
    pc = "scores"
        => /\ \A f \in {"jac12", "jac21", "lev12", "lev21"} :
                 /\ score[f].den > 0
                 /\ 0 <= score[f].num
                 /\ score[f].num <= score[f].den
           /\ dist.d12 <= Len(str1) \/ dist.d12 <= Len(str2)
           /\ dist.d21 <= Len(str1) \/ dist.d21 <= Len(str2)

\* a pair at the largest possible distance (score 0.0) with one string empty
C10_Witness ==
    /\ pc = "scores"
    /\ str1 # <<>>
    /\ str2 = <<>>
    /\ dist.d12 = Len(str1)
    /\ score.lev12.num = 0
    /\ score.jac12 = Zero

(***************************************************************************)
(* normalize_ioc applied once and twice                                    *)
(***************************************************************************)
Pieces == {HTTP, HTTPS, WWW, COM, NET, ORG, IO, <<" ">>, <<"x">>, <<"A">>}

RECURSIVE Concat(_)
Concat(ps) == IF ps = <<>> THEN <<>> ELSE Head(ps) \o Concat(Tail(ps))

\* raw strings: concatenations of at most MaxPieces pieces
PieceStrings == {Concat(ps) : ps \in UNION {[1..n -> Pieces] : n \in 0..MaxPieces}}

InitNormalize ==
    /\ pc = "raw"
    /\ raw \in PieceStrings
    /\ once = <<>>
    /\ twice = <<>>
    /\ IdleRun
    /\ IdleMetric

NormalizeOnce ==
    /\ pc = "raw"
    /\ once' = normalize_ioc(raw)
    /\ pc' = "once"
    /\ UNCHANGED <<raw, twice, runVars, metricVars>>

NormalizeTwice ==
    /\ pc = "once"
    /\ twice' = normalize_ioc(once)
    /\ pc' = "twice"
    /\ UNCHANGED <<raw, once, runVars, metricVars>>

NextNormalize == NormalizeOnce \/ NormalizeTwice

SpecNormalize == InitNormalize /\ [][NextNormalize]_vars

\* C4: normalize_ioc is idempotent: normalizing a normalized string changes
\* nothing, stacked prefixes, stacked suffixes and exposed whitespace
\* included.
C4_NormalizeIdempotent ==
    pc = "twice" => twice = once

====
